---- MODULE Spec2Model ----
(***************************************************************************)
(* State model of the social-feed store of redux-toolkit-essentials:       *)
(* the posts slice (src/src/features/posts/postsSlice.js, second slice of  *)
(* the file, lines 46-153), the users slice (src/unnamed/part_002), the    *)
(* three createAsyncThunk request lifecycles and the mock REST backend     *)
(* they talk to; and the counter slice of the counter application          *)
(* (src/unnamed/part_000, src/src/features/counter/test.js).               *)
(*                                                                         *)
(* The repository holds two applications; a run is a run of one of them    *)
(* (`app`).  A Redux dispatch is one atomic step: the root reducer is      *)
(* applied to the current snapshot and the action.  The variables `last`,  *)
(* `called`, `thrown`, `fresh`, `resolved`, `log` and `steps` are history  *)
(* variables recording the most recent dispatch, the order of settlement   *)
(* and the dispatches made (`log`, in the runs of SpecRecorded); the       *)
(* program state proper is `state`, `reqs`, `serverPosts`, `now` and       *)
(* `counter`.                                                              *)
(***************************************************************************)
EXTENDS Integers, Sequences, FiniteSets, TLC

VARIABLES
    state,        \* the store snapshot: [posts |-> posts section, users |-> users section]
    reqs,         \* thunk invocations so far, in invocation order
    serverPosts,  \* the posts held by the backend behind GET/POST /posts
    now,          \* wall clock read by `new Date()`
    last,         \* the action of the most recent dispatch
    thrown,       \* the exception the most recent dispatch raised, or "none"
    resolved,     \* request indices in the order their network calls settled
    steps,        \* number of dispatches so far
    called,       \* the arguments of the action creator behind the most recent dispatch
    app,          \* the application that runs: "social" or "counter"
    counter,      \* the counter sub-state handed from one reducer call to the next
    fresh,        \* which objects the most recent dispatch created anew (by reference)
    recording,    \* whether the dispatches of this run are written to `log`
    settling,     \* whether the run leaves every fetchPosts request room to settle
    log           \* the actions dispatched so far, in dispatch order, if recorded

vars == <<state, reqs, serverPosts, now, last, thrown, resolved, steps, called,
          app, counter, fresh, recording, settling, log>>

----------------------------------------------------------------------------
(* Bounds of the model *)

MaxSteps == 5     \* most dispatches in an explored run
MaxRecorded == 4  \* most dispatches in an explored run that is recorded in `log`
MaxSettling == 4  \* most dispatches in an explored run whose requests all settle

----------------------------------------------------------------------------
(* Value domains *)

Null == "null"

\* the ids nanoid() returns, in the order it returns them
NanoIds == <<"n1", "n2", "n3", "n4">>

\* ids the backend assigns to the posts it creates, in this order
ServerIds == <<"s1", "s2", "s3", "s4">>

\* an id no post ever carries, for lookups that miss
MissingId == "zz"

\* (title, content, user) triples typed into the add-post form
Inputs == { <<"T1", "C1", "u1">>, <<"T2", "C2", "u2">> }

\* (title, content) pairs typed into the edit-post form
Edits == { <<"T3", "C3">> }

\* the {title, content, user} object handed to addNewPost
Drafts == { [title |-> "T4", content |-> "C4", user |-> "u2"] }

\* messages of a rejected axios call
Messages == {"Network Error", "Request failed with status code 500"}

ReactionKinds == {"thumbsUp", "hooray", "heart", "rocket", "eyes"}

\* the reaction buttons pressed in the explored runs
Pressed == {"heart", "thumbsUp"}

NoPayload == <<>>

\* the JavaScript value undefined
Undefined == [undefined |-> TRUE]

\* the amounts typed into the counter's "add amount" field
Amounts == {2}

noneFresh == [root |-> FALSE, posts |-> FALSE, users |-> FALSE, counter |-> FALSE]

NoAction == [type |-> "@@INIT", payload |-> NoPayload, error |-> Null, req |-> 0]

\* reactions: { thumbsUp: 0, hooray: 0, heart: 0, rocket: 0, eyes: 0 }
zeroReactions == [thumbsUp |-> 0, hooray |-> 0, heart |-> 0, rocket |-> 0, eyes |-> 0]

\* the users behind GET /users
serverUsers == << [id |-> "0", name |-> "Tianna Jenkins"],
                  [id |-> "1", name |-> "Kevin Grant"] >>

\* the lists GET /users may answer with
UserLists == { serverUsers, <<serverUsers[2]>> }

\* the post the backend holds when the application starts
seedPost ==
    [id |-> ServerIds[1], date |-> 0, title |-> "First Post!", content |-> "Hello!",
     user |-> "u1",
     reactions |-> [thumbsUp |-> 1, hooray |-> 0, heart |-> 0, rocket |-> 0, eyes |-> 0]]

----------------------------------------------------------------------------
(* Helpers over collections *)

idsOf(posts) == { posts[i].id : i \in 1..Len(posts) }

\* Array.prototype.find(post => post.id === id): index of the first match, 0 if none
findIndex(posts, id) ==
    IF \E i \in 1..Len(posts) : posts[i].id = id
    THEN CHOOSE i \in 1..Len(posts) :
             /\ posts[i].id = id
             /\ \A j \in 1..(i - 1) : posts[j].id # id
    ELSE 0

----------------------------------------------------------------------------
(* posts slice *)

initialState == [posts |-> <<>>, status |-> "idle", error |-> Null]

\* postAdded.prepare(title, content, userId); id is nanoid(), date is new Date()
postAddedPrepare(title, content, userId, id, date) ==
    [type |-> "posts/postAdded",
     payload |-> [id |-> id, date |-> date, title |-> title, content |-> content,
                  user |-> userId, reactions |-> zeroReactions],
     error |-> Null, req |-> 0]

\* variant: the new post is put first (unshift instead of push)
postAddedReducer_unshift(s, action) ==
    [s EXCEPT !.posts = <<action.payload>> \o @]

\* variant: the reducer stamps the post with the clock it reads itself
postAddedReducer_stampsDate(s, action) ==
    [s EXCEPT !.posts = Append(@, [action.payload EXCEPT !.date = now])]

\* postAdded.reducer: state.posts.push(action.payload)
postAddedReducer(s, action) ==
    [s EXCEPT !.posts = Append(@, action.payload)]

\* variant: an id that matches no post creates the post (upsert)
postUpdated_upsert(s, action) ==
    LET i == findIndex(s.posts, action.payload.id) IN
    IF i # 0
    THEN [s EXCEPT !.posts[i].title = action.payload.title,
                   !.posts[i].content = action.payload.content]
    ELSE [s EXCEPT !.posts = Append(@, action.payload)]

\* variant: the edited post is rebuilt and loses its reaction counts
postUpdated_rebuild(s, action) ==
    LET i == findIndex(s.posts, action.payload.id) IN
    IF i # 0
    THEN [s EXCEPT !.posts[i].title = action.payload.title,
                   !.posts[i].content = action.payload.content,
                   !.posts[i].reactions = zeroReactions]
    ELSE s

\* postUpdated: overwrite title and content of the first post with the id
postUpdated(s, action) ==
    LET i == findIndex(s.posts, action.payload.id) IN
    IF i # 0
    THEN [s EXCEPT !.posts[i].title = action.payload.title,
                   !.posts[i].content = action.payload.content]
    ELSE s

\* reactionAdded calls state.find(...) on the section object {posts, status,
\* error}, which has no `find`: calling undefined raises a TypeError
reactionAddedThrows(s) == "find" \notin DOMAIN s

\* a reducer that throws leaves the snapshot as it was (the draft is dropped)
reactionAdded(s, action) == s

\* variant: the pending case forgets to set the status
fetchPostsPending_noStatus(s, action) == s

\* variant: a new request clears the message of an earlier failure
fetchPostsPending_clearsError(s, action) ==
    [s EXCEPT !.status = "loading", !.error = Null]

\* fetchPosts.pending
fetchPostsPending(s, action) == [s EXCEPT !.status = "loading"]

\* variant: a success never overwrites an earlier failure
fetchPostsFulfilled_keepFailed(s, action) ==
    [s EXCEPT !.status = IF @ = "failed" THEN "failed" ELSE "succeeded",
              !.posts = @ \o action.payload]

\* variant: the fetched list replaces the collection instead of extending it
fetchPostsFulfilled_replace(s, action) ==
    [s EXCEPT !.status = "succeeded", !.posts = action.payload]

\* variant: the fetched list is put in front of the collection
fetchPostsFulfilled_prepend(s, action) ==
    [s EXCEPT !.status = "succeeded", !.posts = action.payload \o @]

\* fetchPosts.fulfilled
fetchPostsFulfilled(s, action) ==
    [s EXCEPT !.status = "succeeded", !.posts = @ \o action.payload]

\* variant: a failed fetch also empties the collection
fetchPostsRejected_clears(s, action) ==
    [s EXCEPT !.status = "failed", !.error = action.error, !.posts = <<>>]

\* variant: a failed fetch records the message and leaves the status
fetchPostsRejected_keepsLoading(s, action) ==
    [s EXCEPT !.error = action.error]

\* fetchPosts.rejected
fetchPostsRejected(s, action) ==
    [s EXCEPT !.status = "failed", !.error = action.error]

\* variant: a saved post also marks the collection as loaded
addNewPostFulfilled_setsStatus(s, action) ==
    [s EXCEPT !.posts = Append(@, action.payload), !.status = "succeeded"]

\* variant: the saved post is put first (unshift instead of push)
addNewPostFulfilled_unshift(s, action) ==
    [s EXCEPT !.posts = <<action.payload>> \o @]

\* addNewPost.fulfilled
addNewPostFulfilled(s, action) ==
    [s EXCEPT !.posts = Append(@, action.payload)]

postsThrows(s, action) ==
    IF action.type = "posts/reactionAdded" THEN reactionAddedThrows(s) ELSE FALSE

\* variant: the rejected case is registered for every thunk of the section
postsReducer_anyRejected(s, action) ==
    CASE action.type = "posts/postAdded" -> postAddedReducer(s, action)
      [] action.type = "posts/postUpdated" -> postUpdated(s, action)
      [] action.type = "posts/reactionAdded" -> reactionAdded(s, action)
      [] action.type = "posts/fetchPosts/pending" -> fetchPostsPending(s, action)
      [] action.type = "posts/fetchPosts/fulfilled" -> fetchPostsFulfilled(s, action)
      [] action.type \in {"posts/fetchPosts/rejected", "posts/addNewPost/rejected"} ->
             fetchPostsRejected(s, action)
      [] action.type = "posts/addNewPost/fulfilled" -> addNewPostFulfilled(s, action)
      [] OTHER -> s

\* variant: an action the slice does not handle resets the section
postsReducer_resetOnUnknown(s, action) ==
    CASE action.type = "posts/postAdded" -> postAddedReducer(s, action)
      [] action.type = "posts/postUpdated" -> postUpdated(s, action)
      [] action.type = "posts/reactionAdded" -> reactionAdded(s, action)
      [] action.type = "posts/fetchPosts/pending" -> fetchPostsPending(s, action)
      [] action.type = "posts/fetchPosts/fulfilled" -> fetchPostsFulfilled(s, action)
      [] action.type = "posts/fetchPosts/rejected" -> fetchPostsRejected(s, action)
      [] action.type = "posts/addNewPost/fulfilled" -> addNewPostFulfilled(s, action)
      [] OTHER -> initialState

\* postsSlice.reducer
postsReducer(s, action) ==
    CASE action.type = "posts/postAdded" -> postAddedReducer(s, action)
      [] action.type = "posts/postUpdated" -> postUpdated(s, action)
      [] action.type = "posts/reactionAdded" -> reactionAdded(s, action)
      [] action.type = "posts/fetchPosts/pending" -> fetchPostsPending(s, action)
      [] action.type = "posts/fetchPosts/fulfilled" -> fetchPostsFulfilled(s, action)
      [] action.type = "posts/fetchPosts/rejected" -> fetchPostsRejected(s, action)
      [] action.type = "posts/addNewPost/fulfilled" -> addNewPostFulfilled(s, action)
      [] OTHER -> s

\* variant: postUpdated edits the stored post object in place
postsIsNew_editInPlace(s, action) ==
    CASE action.type = "posts/postAdded" -> TRUE
      [] action.type = "posts/postUpdated" -> FALSE
      [] action.type = "posts/fetchPosts/pending" -> s.status # "loading"
      [] action.type = "posts/fetchPosts/fulfilled" -> TRUE
      [] action.type = "posts/fetchPosts/rejected" ->
             s.status # "failed" \/ s.error # action.error
      [] action.type = "posts/addNewPost/fulfilled" -> TRUE
      [] OTHER -> FALSE

\* whether the posts reducer returns a new object: the draft of the section
\* was written with a value that differs from the one it held
postsIsNew(s, action) ==
    CASE action.type = "posts/postAdded" -> TRUE
      [] action.type = "posts/postUpdated" ->
             LET i == findIndex(s.posts, action.payload.id) IN
             /\ i # 0
             /\ \/ s.posts[i].title # action.payload.title
                \/ s.posts[i].content # action.payload.content
      [] action.type = "posts/fetchPosts/pending" -> s.status # "loading"
      [] action.type = "posts/fetchPosts/fulfilled" -> TRUE
      [] action.type = "posts/fetchPosts/rejected" ->
             s.status # "failed" \/ s.error # action.error
      [] action.type = "posts/addNewPost/fulfilled" -> TRUE
      [] OTHER -> FALSE

selectAllPosts(st) == st.posts.posts

\* selectPostById: the first post with the id, or Null (undefined) when none
selectPostById(st, postId) ==
    LET i == findIndex(st.posts.posts, postId) IN
    IF i = 0 THEN Null ELSE st.posts.posts[i]

----------------------------------------------------------------------------
(* views *)

\* the value of a parameter the caller does not pass (undefined)
NoArgument == "undefined"

\* SinglePostPage({ match }): useSelector(selectPostById) calls the selector
\* with the state alone, so the selector's postId is undefined; the route's
\* postId is read from match.params and not used
SinglePostPage(st, postId) ==
    LET post == selectPostById(st, NoArgument) IN
    IF findIndex(st.posts.posts, NoArgument) = 0
    THEN [shows |-> "Post not found!"]
    ELSE [shows |-> "post", post |-> post]

\* array.sort((a, b) => b.date.localeCompare(a.date)): later dates first,
\* posts of equal date in their former order (the sort is stable)
RECURSIVE sortNewestFirst(_)
sortNewestFirst(ps) ==
    IF Len(ps) <= 1 THEN ps
    ELSE LET rest == sortNewestFirst(Tail(ps))
             h == Head(ps)
             k == Cardinality({ i \in 1..Len(rest) : rest[i].date > h.date })
         IN SubSeq(rest, 1, k) \o <<h>> \o SubSeq(rest, k + 1, Len(rest))

\* whether posts.slice() raises: useSelector(state => state.posts) gives the
\* section object {posts, status, error}, which has no slice method
PostsListThrows(st) == "slice" \notin DOMAIN st.posts

\* PostsList(): the posts it renders, in rendering order
PostsList(st) ==
    IF PostsListThrows(st)
    THEN [throws |-> "TypeError"]
    ELSE [shows |-> sortNewestFirst(st.posts)]

----------------------------------------------------------------------------
(* users slice *)

usersInitialState == <<>>

\* variant: the fetched users are added to the ones already held
usersReducer_append(s, action) ==
    IF action.type = "users/fetchUsers/fulfilled" THEN s \o action.payload ELSE s

\* usersSlice.reducer
usersReducer(s, action) ==
    IF action.type = "users/fetchUsers/fulfilled" THEN action.payload ELSE s

\* whether the users reducer returns a new object: the fulfilled case returns
\* the payload, an object other than the section it replaces
usersIsNew(s, action) == action.type = "users/fetchUsers/fulfilled"

selectAllUsers(st) == st.users

----------------------------------------------------------------------------
(* counter slice *)

\* variant: the counter starts at 1
counterInitialState_one == [value |-> 1]

\* initialState of the counter slice
counterInitialState == [value |-> 0]

\* counterSlice.getInitialState()
getInitialState == counterInitialState

\* variant: the type is built with another separator
actionType_dot(name, key) == name \o "." \o key

\* the type createSlice gives the action of reducer `key` of slice `name`
actionType(name, key) == name \o "/" \o key

increment(s) == [s EXCEPT !.value = @ + 1]

decrement(s) == [s EXCEPT !.value = @ - 1]

incrementByAmount(s, action) == [s EXCEPT !.value = @ + action.payload]

counterReducer(s, action) ==
    LET st == IF s = Undefined THEN counterInitialState ELSE s IN
    CASE action.type = actionType("counter", "increment") -> increment(st)
      [] action.type = actionType("counter", "decrement") -> decrement(st)
      [] action.type = actionType("counter", "incrementByAmount") ->
             incrementByAmount(st, action)
      [] OTHER -> st

\* whether the counter reducer returns an object other than the one it was given
counterIsNew(s, action) == counterReducer(s, action) # s

----------------------------------------------------------------------------
(* store *)

rootReducer(st, action) ==
    [posts |-> postsReducer(st.posts, action),
     users |-> usersReducer(st.users, action)]

\* variant: every dispatch builds a new root object
rootIsNew_always(st, action) == TRUE

\* whether the root reducer returns a new root object: only if a section's
\* reducer returned an object other than the one it was given
rootIsNew(st, action) ==
    postsIsNew(st.posts, action) \/ usersIsNew(st.users, action)

\* the dispatches an explored run keeps back after this action, so that the
\* terminal event of every fetchPosts request still in flight fits in the run
held(action) ==
    IF ~settling THEN 0
    ELSE Cardinality({ r \in 1..Len(reqs) :
                         /\ reqs[r].thunk = "posts/fetchPosts"
                         /\ reqs[r].events = <<"pending">> })
         + (IF action.type = "posts/fetchPosts/pending" THEN 1 ELSE 0)
         - (IF action.type \in { "posts/fetchPosts/fulfilled",
                                 "posts/fetchPosts/rejected" } THEN 1 ELSE 0)

\* the bookkeeping of one reducer call: count it, remember its action
observe(action) ==
    /\ steps + 1 + held(action)
          <= (IF recording THEN MaxRecorded
              ELSE IF settling THEN MaxSettling ELSE MaxSteps)
    /\ steps' = steps + 1
    /\ last' = action
    /\ log' = IF recording THEN Append(log, action) ELSE log
    /\ UNCHANGED <<app, recording, settling>>

\* variant: a dispatch that repeats the type of the previous action is
\* coalesced with it and not applied
dispatch_coalesce(action) ==
    /\ app = "social"
    /\ observe(action)
    /\ IF postsThrows(state.posts, action)
       THEN /\ thrown' = "TypeError"
            /\ state' = state
            /\ fresh' = noneFresh
       ELSE /\ thrown' = "none"
            /\ state' = IF action.type = last.type THEN state
                        ELSE rootReducer(state, action)
            /\ fresh' = [root |-> rootIsNew(state, action),
                         posts |-> postsIsNew(state.posts, action),
                         users |-> usersIsNew(state.users, action),
                         counter |-> FALSE]
    /\ UNCHANGED counter

\* store.dispatch(action) of the social application: one atomic transition
\* of the snapshot
dispatch(action) ==
    /\ app = "social"
    /\ observe(action)
    /\ IF postsThrows(state.posts, action)
       THEN /\ thrown' = "TypeError"
            /\ state' = state
            /\ fresh' = noneFresh
       ELSE /\ thrown' = "none"
            /\ state' = rootReducer(state, action)
            /\ fresh' = [root |-> rootIsNew(state, action),
                         posts |-> postsIsNew(state.posts, action),
                         users |-> usersIsNew(state.users, action),
                         counter |-> FALSE]
    /\ UNCHANGED counter

\* counterReducer(state, action), the returned state kept for the next call
counterDispatch(action) ==
    /\ app = "counter"
    /\ observe(action)
    /\ thrown' = "none"
    /\ counter' = counterReducer(counter, action)
    /\ fresh' = [root |-> counterIsNew(counter, action), posts |-> FALSE,
                 users |-> FALSE, counter |-> counterIsNew(counter, action)]
    /\ UNCHANGED <<state, reqs, serverPosts, now, resolved>>

start ==
    /\ state = [posts |-> initialState, users |-> usersInitialState]
    /\ reqs = <<>>
    /\ serverPosts = <<seedPost>>
    /\ now = 0
    /\ last = NoAction
    /\ thrown = "none"
    /\ resolved = <<>>
    /\ steps = 0
    /\ called = <<>>
    /\ app \in {"social", "counter"}
    /\ counter = Undefined
    /\ fresh = noneFresh
    /\ log = <<>>

Init == start /\ recording = FALSE /\ settling = FALSE

InitRecorded == start /\ recording = TRUE /\ settling = FALSE

InitSettling == start /\ recording = FALSE /\ settling = TRUE

\* nanoid(): a random id, unique among the ids generated so far; every id
\* generated so far is in the collection, since posts are never removed
nanoid ==
    { NanoIds[k] : k \in { j \in 1..Len(NanoIds) :
        /\ NanoIds[j] \notin idsOf(state.posts.posts)
        /\ \A i \in 1..(j - 1) : NanoIds[i] \in idsOf(state.posts.posts) } }

----------------------------------------------------------------------------
(* synchronous events *)

\* dispatch(postAdded(title, content, userId))
PostAdded ==
    /\ \E inp \in Inputs, id \in nanoid, t \in {now, now + 1} :
         /\ now' = t
         /\ called' = inp
         /\ dispatch(postAddedPrepare(inp[1], inp[2], inp[3], id, t))
    /\ UNCHANGED <<reqs, serverPosts, resolved>>

\* dispatch(postUpdated({id, title, content}))
PostUpdated ==
    /\ \E id \in idsOf(state.posts.posts) \cup {MissingId}, inp \in Edits :
         /\ called' = <<id, inp[1], inp[2]>>
         /\ dispatch([type |-> "posts/postUpdated",
                      payload |-> [id |-> id, title |-> inp[1], content |-> inp[2]],
                      error |-> Null, req |-> 0])
    /\ UNCHANGED <<reqs, serverPosts, now, resolved>>

\* dispatch(reactionAdded({postId, reaction}))
ReactionAdded ==
    /\ \E id \in idsOf(state.posts.posts) \cup {MissingId}, r \in Pressed :
         /\ called' = <<id, r>>
         /\ dispatch([type |-> "posts/reactionAdded",
                      payload |-> [postId |-> id, reaction |-> r],
                      error |-> Null, req |-> 0])
    /\ UNCHANGED <<reqs, serverPosts, now, resolved>>

----------------------------------------------------------------------------
(* createAsyncThunk lifecycles *)

inFlight(r) == r \in 1..Len(reqs) /\ reqs[r].events = <<"pending">>

\* dispatch(thunk(arg)): the pending action is dispatched at once, then the
\* payload creator starts its network call
invoke(typePrefix, arg) ==
    /\ reqs' = Append(reqs, [thunk |-> typePrefix, arg |-> arg, events |-> <<"pending">>])
    /\ called' = <<arg>>
    /\ dispatch([type |-> typePrefix \o "/pending", payload |-> NoPayload,
                 error |-> Null, req |-> Len(reqs) + 1])
    /\ UNCHANGED <<serverPosts, now, resolved>>

\* the payload creator returned: dispatch the fulfilled action
fulfil(r, payload) ==
    /\ reqs' = [reqs EXCEPT ![r].events = Append(@, "fulfilled")]
    /\ resolved' = Append(resolved, r)
    /\ called' = <<>>
    /\ dispatch([type |-> reqs[r].thunk \o "/fulfilled", payload |-> payload,
                 error |-> Null, req |-> r])

\* the payload creator threw: dispatch the rejected action
reject(r, msg) ==
    /\ reqs' = [reqs EXCEPT ![r].events = Append(@, "rejected")]
    /\ resolved' = Append(resolved, r)
    /\ called' = <<>>
    /\ dispatch([type |-> reqs[r].thunk \o "/rejected", payload |-> NoPayload,
                 error |-> msg, req |-> r])
    /\ UNCHANGED <<serverPosts, now>>

FetchPostsInvoke == invoke("posts/fetchPosts", NoPayload)

\* GET /posts answered: response.data is the backend's list
FetchPostsFulfil ==
    \E r \in 1..Len(reqs) :
        /\ inFlight(r)
        /\ reqs[r].thunk = "posts/fetchPosts"
        /\ fulfil(r, serverPosts)
        /\ UNCHANGED <<serverPosts, now>>

FetchPostsReject ==
    \E r \in 1..Len(reqs), msg \in Messages :
        /\ inFlight(r)
        /\ reqs[r].thunk = "posts/fetchPosts"
        /\ reject(r, msg)

AddNewPostInvoke ==
    \E initialPost \in Drafts :
        invoke("posts/addNewPost", initialPost)

\* POST /posts answered: the backend stores the post and echoes it with the
\* fields it assigned
AddNewPostFulfil ==
    \E r \in 1..Len(reqs) :
        /\ inFlight(r)
        /\ reqs[r].thunk = "posts/addNewPost"
        /\ Len(serverPosts) < Len(ServerIds)
        /\ LET created == [id |-> ServerIds[Len(serverPosts) + 1], date |-> now, title |-> reqs[r].arg.title,
                           content |-> reqs[r].arg.content, user |-> reqs[r].arg.user,
                           reactions |-> zeroReactions]
           IN /\ serverPosts' = Append(serverPosts, created)
              /\ fulfil(r, created)
              /\ UNCHANGED now

AddNewPostReject ==
    \E r \in 1..Len(reqs), msg \in Messages :
        /\ inFlight(r)
        /\ reqs[r].thunk = "posts/addNewPost"
        /\ reject(r, msg)

FetchUsersInvoke == invoke("users/fetchUsers", NoPayload)

FetchUsersFulfil ==
    \E r \in 1..Len(reqs) :
        /\ inFlight(r)
        /\ reqs[r].thunk = "users/fetchUsers"
        /\ \E list \in UserLists : fulfil(r, list)
        /\ UNCHANGED <<serverPosts, now>>

FetchUsersReject ==
    \E r \in 1..Len(reqs), msg \in Messages :
        /\ inFlight(r)
        /\ reqs[r].thunk = "users/fetchUsers"
        /\ reject(r, msg)

----------------------------------------------------------------------------
(* counter application *)

\* counterReducer(state, { type: 'unknown' })
CounterUnknown ==
    /\ called' = <<"{type: 'unknown'}">>
    /\ counterDispatch([type |-> "unknown"])

\* counterReducer(state, a) for the three ways of building the increment
\* action: increment(), { type: increment.type }, { type: 'counter/increment' }
CounterIncrement ==
    \/ /\ called' = <<"increment()">>
       /\ counterDispatch([type |-> actionType("counter", "increment"),
                           payload |-> Undefined])
    \/ /\ called' = <<"{type: increment.type}">>
       /\ counterDispatch([type |-> actionType("counter", "increment")])
    \/ /\ called' = <<"{type: 'counter/increment'}">>
       /\ counterDispatch([type |-> "counter/increment"])

\* counterReducer(state, decrement())
CounterDecrement ==
    /\ called' = <<"decrement()">>
    /\ counterDispatch([type |-> actionType("counter", "decrement"),
                        payload |-> Undefined])

\* counterReducer(state, incrementByAmount(n))
CounterIncrementByAmount ==
    \E n \in Amounts :
        /\ called' = <<"incrementByAmount()", n>>
        /\ counterDispatch([type |-> actionType("counter", "incrementByAmount"),
                            payload |-> n])

Next ==
    \/ PostAdded
    \/ PostUpdated
    \/ ReactionAdded
    \/ FetchPostsInvoke
    \/ FetchPostsFulfil
    \/ FetchPostsReject
    \/ AddNewPostInvoke
    \/ AddNewPostFulfil
    \/ AddNewPostReject
    \/ FetchUsersInvoke
    \/ FetchUsersFulfil
    \/ FetchUsersReject
    \/ CounterUnknown
    \/ CounterIncrement
    \/ CounterDecrement
    \/ CounterIncrementByAmount

Spec == Init /\ [][Next]_vars

\* the same program, its dispatches recorded
SpecRecorded == InitRecorded /\ [][Next]_vars

\* the network call of a fetchPosts request in flight resolves or rejects
SettleFetchPosts == FetchPostsFulfil \/ FetchPostsReject

\* the runs in which every started GET /posts call eventually resolves or
\* rejects
SpecSettling == InitSettling /\ [][Next]_vars /\ WF_vars(SettleFetchPosts)

----------------------------------------------------------------------------
(* Properties *)

fetchReqs(rq) == { r \in 1..Len(rq) : rq[r].thunk = "posts/fetchPosts" }

lifecycles == { <<"pending">>, <<"pending", "fulfilled">>, <<"pending", "rejected">> }

\* C1: a single fetchPosts invocation first moves the status idle -> loading
\* with its pending event, and afterwards exactly one terminal event of it is
\* applied: fulfilled (status succeeded, collection extended by the response
\* items) or rejected (status failed, message recorded, collection unchanged);
\* never both, and never a terminal event before the pending one.
C1_FetchLifecycle ==
    [][ LET fr == fetchReqs(reqs')
            r == last'.req
        IN /\ \A q \in fr : reqs'[q].events \in lifecycles
           /\ (Cardinality(fr) = 1 /\ r \in fr) =>
                /\ last'.type = "posts/fetchPosts/pending" =>
                     /\ r \notin fetchReqs(reqs)
                     /\ state.posts.status = "idle"
                     /\ state'.posts.status = "loading"
                     /\ state'.posts.posts = state.posts.posts
                /\ last'.type = "posts/fetchPosts/fulfilled" =>
                     /\ reqs[r].events = <<"pending">>
                     /\ state.posts.status = "loading"
                     /\ state'.posts.status = "succeeded"
                     /\ last'.payload = serverPosts
                     /\ state'.posts.posts = state.posts.posts \o last'.payload
                /\ last'.type = "posts/fetchPosts/rejected" =>
                     /\ reqs[r].events = <<"pending">>
                     /\ state.posts.status = "loading"
                     /\ state'.posts.status = "failed"
                     /\ last'.error \in Messages
                     /\ state'.posts.error = last'.error
                     /\ state'.posts.posts = state.posts.posts
      ]_vars

\* C1 witness: the only fetchPosts invocation has just been fulfilled and the
\* fetched items are in the collection
C1_Witness ==
    /\ Cardinality(fetchReqs(reqs)) = 1
    /\ last.type = "posts/fetchPosts/fulfilled"
    /\ reqs[last.req].events = <<"pending", "fulfilled">>
    /\ state.posts.status = "succeeded"
    /\ Len(state.posts.posts) > 0

statusSteps ==
    { <<"idle", "loading">>, <<"loading", "succeeded">>, <<"loading", "failed">>,
      <<"succeeded", "loading">>, <<"failed", "loading">> }

\* C2: over any sequence of events, overlapping fetchPosts invocations
\* included, posts.status only changes along idle -> loading, loading ->
\* succeeded, loading -> failed, or succeeded/failed -> loading; it never steps
\* directly between succeeded and failed.
C2_StatusSteps ==
    [][ state'.posts.status # state.posts.status =>
            <<state.posts.status, state'.posts.status>> \in statusSteps ]_vars

outcomeStatus(events) ==
    IF events[Len(events)] = "fulfilled" THEN "succeeded" ELSE "failed"

\* the fetchPosts request whose network call settled last
lastSettledFetch ==
    LET idx == { i \in 1..Len(resolved) : resolved[i] \in fetchReqs(reqs) }
    IN resolved[CHOOSE i \in idx : \A j \in idx : j <= i]

\* C3: overlapping fetchPosts invocations each dispatch their own pending
\* event and exactly one terminal event, and once all of them have settled
\* posts.status is the outcome of the one whose network call settled last,
\* whatever the order in which they were started.
C3_LastSettledWins ==
    LET fr == fetchReqs(reqs) IN
    /\ \A r \in fr : reqs[r].events \in lifecycles
    /\ \A r \in fr : Len(reqs[r].events) = 2 <=>
                       Cardinality({ i \in 1..Len(resolved) : resolved[i] = r }) = 1
    /\ (fr # {} /\ \A r \in fr : Len(reqs[r].events) = 2) =>
           state.posts.status = outcomeStatus(reqs[lastSettledFetch].events)

\* C3 witness: two invocations overlapped, the one started second settled
\* first (fulfilled), the one started first settled last (rejected)
C3_Witness ==
    /\ Len(reqs) = 2
    /\ fetchReqs(reqs) = {1, 2}
    /\ resolved = <<2, 1>>
    /\ reqs[2].events = <<"pending", "fulfilled">>
    /\ reqs[1].events = <<"pending", "rejected">>
    /\ state.posts.status = "failed"

\* C4: in every reachable state of the posts section no two posts of the
\* collection have the same id.
C4_UniqueIds ==
    \A i, j \in 1..Len(state.posts.posts) :
        i # j => state.posts.posts[i].id # state.posts.posts[j].id

\* C5: reactionAdded for a post of the collection and a known reaction kind
\* raises exactly that post's named counter by 1 and changes nothing else.
C5_ReactionIncrements ==
    [][ LET i == findIndex(state.posts.posts, last'.payload.postId)
            kind == last'.payload.reaction
        IN (last'.type = "posts/reactionAdded" /\ i # 0 /\ kind \in ReactionKinds) =>
               state'.posts = [state.posts EXCEPT !.posts[i].reactions[kind] = @ + 1]
      ]_vars

\* C6: reactionAdded with a postId matching no post raises no error and
\* leaves the whole posts section as it was.
C6_ReactionMiss ==
    [][ (last'.type = "posts/reactionAdded"
            /\ findIndex(state.posts.posts, last'.payload.postId) = 0) =>
               /\ thrown' = "none"
               /\ state'.posts = state.posts
      ]_vars

\* C7: postAdded(title, content, userId) appends exactly one post at the end
\* of the collection, with the given title, content and user, five reaction
\* counters at 0 and an id no post of the collection had; selectPostById with
\* that id returns this post.
C7_PostAdded ==
    [][ last'.type = "posts/postAdded" =>
          LET n == Len(state.posts.posts)
              p == state'.posts.posts[n + 1]
          IN /\ Len(state'.posts.posts) = n + 1
             /\ SubSeq(state'.posts.posts, 1, n) = state.posts.posts
             /\ p.title = called'[1]
             /\ p.content = called'[2]
             /\ p.user = called'[3]
             /\ DOMAIN p.reactions = ReactionKinds
             /\ \A k \in ReactionKinds : p.reactions[k] = 0
             /\ p.id \notin idsOf(state.posts.posts)
             /\ selectPostById(state', p.id) = p
      ]_vars

\* C7 witness: a post has just been added behind an existing one
C7_Witness ==
    /\ last.type = "posts/postAdded"
    /\ Len(state.posts.posts) >= 2
    /\ state.posts.posts[Len(state.posts.posts)].title = called[1]

\* C8: a fetchPosts rejected event sets the status to failed and the error to
\* the error's message, and leaves the collection exactly as it was.
C8_Rejected ==
    [][ last'.type = "posts/fetchPosts/rejected" =>
          /\ state'.posts.status = "failed"
          /\ last'.error \in Messages
          /\ state'.posts.error = last'.error
          /\ state'.posts.posts = state.posts.posts
      ]_vars

\* C8 witness: a fetch has just been rejected while the collection held posts
C8_Witness ==
    /\ last.type = "posts/fetchPosts/rejected"
    /\ state.posts.status = "failed"
    /\ state.posts.error \in Messages
    /\ Len(state.posts.posts) > 0

\* C9: a fetchPosts fulfilled event with response list R sets the status to
\* succeeded and makes the collection the previous collection followed by
\* the items of R in response order.
C9_Fulfilled ==
    [][ last'.type = "posts/fetchPosts/fulfilled" =>
          LET n == Len(state.posts.posts)
              R == last'.payload
          IN /\ state'.posts.status = "succeeded"
             /\ Len(state'.posts.posts) = n + Len(R)
             /\ \A i \in 1..n : state'.posts.posts[i] = state.posts.posts[i]
             /\ \A i \in 1..Len(R) : state'.posts.posts[n + i] = R[i]
      ]_vars

\* C9 witness: a response of two items has just been put behind a non-empty
\* collection
C9_Witness ==
    /\ last.type = "posts/fetchPosts/fulfilled"
    /\ Len(last.payload) >= 2
    /\ Len(state.posts.posts) > Len(last.payload)
    /\ state.posts.status = "succeeded"

rejectedTypes ==
    { "posts/fetchPosts/rejected", "posts/addNewPost/rejected", "users/fetchUsers/rejected" }

\* the users section is the bare list of users: it has neither a status nor
\* an error field in which a failure could be recorded
usersRecordsFailure(users, msg) == FALSE

C11_UpdateMiss ==
    [][ (last'.type = "posts/postUpdated"
            /\ last'.payload.id \notin idsOf(state.posts.posts)) =>
               /\ thrown' = "none"
               /\ state'.posts = state.posts
      ]_vars

\* C11 witness: an update for an absent id has just been dispatched on a
\* non-empty collection
C11_Witness ==
    /\ last.type = "posts/postUpdated"
    /\ last.payload.id \notin idsOf(state.posts.posts)
    /\ Len(state.posts.posts) > 0
    /\ thrown = "none"

\* C12: postUpdated({id, title, content}) with an id present in the
\* collection sets title and content of the (first) post with that id to the
\* given values and changes nothing else: the post's id, user, date and
\* reactions, its position, every other post, status and error stay.
C12_UpdateHit ==
    [][ (last'.type = "posts/postUpdated"
            /\ last'.payload.id \in idsOf(state.posts.posts)) =>
          LET old == state.posts.posts
              new == state'.posts.posts
              i == findIndex(old, called'[1])
          IN /\ thrown' = "none"
             /\ Len(new) = Len(old)
             /\ new[i].title = called'[2]
             /\ new[i].content = called'[3]
             /\ new[i].id = old[i].id
             /\ new[i].user = old[i].user
             /\ new[i].date = old[i].date
             /\ new[i].reactions = old[i].reactions
             /\ DOMAIN new[i] = DOMAIN old[i]
             /\ \A j \in 1..Len(old) : j # i => new[j] = old[j]
             /\ state'.posts.status = state.posts.status
             /\ state'.posts.error = state.posts.error
      ]_vars

\* C12 witness: a fetched post with a non-zero reaction count, standing behind
\* another post, has just been edited
C12_Witness ==
    /\ last.type = "posts/postUpdated"
    /\ \E i \in 2..Len(state.posts.posts) :
          /\ state.posts.posts[i].id = last.payload.id
          /\ state.posts.posts[i].title = last.payload.title
          /\ state.posts.posts[i].content = last.payload.content
          /\ state.posts.posts[i].reactions.thumbsUp = 1
          /\ state.posts.posts[1].id # last.payload.id

\* the action types the posts slice handles (reducers and extraReducers)
postsHandled ==
    { "posts/postAdded", "posts/postUpdated", "posts/reactionAdded",
      "posts/fetchPosts/pending", "posts/fetchPosts/fulfilled",
      "posts/fetchPosts/rejected", "posts/addNewPost/fulfilled" }

\* the action types the counter slice handles
counterHandled ==
    { "counter/increment", "counter/decrement", "counter/incrementByAmount" }

\* C13: for each slice reducer (posts, users, counter) and any current
\* sub-state, an action whose type the slice does not handle returns the very
\* same sub-state: the same object, no field changed.
C13_UnknownIsIdentity ==
    [][ /\ (app = "social" /\ last'.type \notin postsHandled) =>
              /\ state'.posts = state.posts
              /\ ~fresh'.posts
        /\ (app = "social" /\ last'.type # "users/fetchUsers/fulfilled") =>
              /\ state'.users = state.users
              /\ ~fresh'.users
        /\ (app = "counter" /\ counter # Undefined
              /\ last'.type \notin counterHandled) =>
              /\ counter' = counter
              /\ ~fresh'.counter
      ]_vars

\* C13 witness: an action the posts slice does not handle has just been
\* dispatched on a section that is no longer the initial one
C13_Witness ==
    /\ last.type = "posts/addNewPost/rejected"
    /\ Len(state.posts.posts) > 0
    /\ state.posts.status # "idle"
    /\ ~fresh.posts

\* C14: the counter reducer called with an undefined state and an action of
\* unrecognised type returns the slice's initial state {value: 0}, the value
\* getInitialState() reports.
C14_UndefinedGivesInitial ==
    [][ (app = "counter" /\ counter = Undefined
            /\ last'.type \notin counterHandled) =>
               /\ counter' = [value |-> 0]
               /\ counter' = getInitialState
      ]_vars

\* C14 witness: the first reducer call, with { type: 'unknown' }
C14_Witness ==
    /\ app = "counter"
    /\ steps = 1
    /\ last.type = "unknown"
    /\ counter = [value |-> 0]

\* how many recorded actions have the type
countOf(type) == Cardinality({ i \in 1..Len(log) : log[i].type = type })

\* the sum of the payloads of the first n recorded actions that are
\* incrementByAmount actions
RECURSIVE amountSum(_)
amountSum(n) ==
    IF n = 0 THEN 0
    ELSE amountSum(n - 1) +
         (IF log[n].type = "counter/incrementByAmount" THEN log[n].payload ELSE 0)

\* the value the counter reducer works on: an undefined state counts as 0
valueOf(s) == IF s = Undefined THEN 0 ELSE s.value

\* C15: each action of type 'counter/increment' raises the value by exactly
\* 1, so n successive increments from v give v + n (0 -> 1 -> 2 -> 3); the
\* action is recognised by its type string alone: increment(),
\* {type: increment.type} and {type: 'counter/increment'} have the same effect.
C15_Increment ==
    [][ app = "counter" =>
          /\ called'[1] \in { "increment()", "{type: increment.type}",
                              "{type: 'counter/increment'}" } =>
                /\ last'.type = "counter/increment"
                /\ counter'.value = valueOf(counter) + 1
          /\ last'.type = "counter/increment" =>
                counter'.value = valueOf(counter) + 1
          /\ counter'.value =
                (countOf("counter/increment"))'
                - (countOf("counter/decrement"))'
                + (amountSum(Len(log)))'
      ]_vars

\* C15 witness: the run of the counter test: 'unknown', then the increment
\* action built in the three ways, leaving 3
C15_Witness ==
    /\ app = "counter"
    /\ Len(log) = 4
    /\ log[1].type = "unknown"
    /\ log[2] = [type |-> "counter/increment", payload |-> Undefined]
    /\ log[3] = [type |-> "counter/increment"]
    /\ called = <<"{type: 'counter/increment'}">>
    /\ counter = [value |-> 3]

\* one application of the root reducer in the fold: an action whose reducer
\* raises aborts its dispatch and leaves the snapshot
applyAction(st, action) ==
    IF postsThrows(st.posts, action) THEN st ELSE rootReducer(st, action)

\* the root reducer folded over the first n recorded actions, in dispatch
\* order, from the initial snapshot
RECURSIVE replay(_)
replay(n) ==
    IF n = 0 THEN [posts |-> initialState, users |-> usersInitialState]
    ELSE applyAction(replay(n - 1), log[n])

fetchPostsEvents ==
    { "posts/fetchPosts/pending", "posts/fetchPosts/fulfilled",
      "posts/fetchPosts/rejected" }

\* the fetchPosts invocations that have not settled
fetchPostsInFlight(rq) ==
    { r \in fetchReqs(rq) : rq[r].events = <<"pending">> }

\* C17: while one fetchPosts invocation is in flight and no other fetchPosts
\* invocation occurs, posts.status stays 'loading' (no timeout, no retry);
\* and no event other than a fetchPosts event (postAdded, postUpdated,
\* addNewPost pending / fulfilled / rejected, the fetchUsers events) changes
\* posts.status.
C17_StatusOnlyByFetchPosts ==
    [][ app = "social" =>
          /\ last'.type \notin fetchPostsEvents =>
                /\ state'.posts.status = state.posts.status
                /\ fetchPostsInFlight(reqs') = fetchPostsInFlight(reqs)
          /\ (Cardinality(fetchReqs(reqs')) = 1 /\ fetchPostsInFlight(reqs') # {}) =>
                state'.posts.status = "loading"
      ]_vars

\* C17 witness: the only fetchPosts invocation is still in flight after an
\* addNewPost invocation has been fulfilled
C17_Witness ==
    /\ Cardinality(fetchReqs(reqs)) = 1
    /\ fetchPostsInFlight(reqs) # {}
    /\ last.type = "posts/addNewPost/fulfilled"
    /\ steps >= 4
    /\ state.posts.status = "loading"

\* C18: when a fetchUsers invocation is fulfilled with payload P the users
\* section becomes P, whatever it held before (replacement, not append), so
\* applying the same fulfilled event again changes nothing; no other event
\* changes the users section.
C18_UsersReplaced ==
    [][ app = "social" =>
          /\ last'.type = "users/fetchUsers/fulfilled" =>
                /\ last'.payload \in UserLists
                /\ state'.users = last'.payload
                /\ selectAllUsers(state') = last'.payload
                /\ usersReducer(state'.users, last') = state'.users
          /\ last'.type # "users/fetchUsers/fulfilled" =>
                state'.users = state.users
      ]_vars

\* C18 witness: a second fetchUsers invocation is fulfilled with a shorter
\* list than the one the section already holds
C18_Witness ==
    /\ last.type = "users/fetchUsers/fulfilled"
    /\ Len(resolved) = 2
    /\ reqs[resolved[1]].thunk = "users/fetchUsers"
    /\ reqs[resolved[1]].events = <<"pending", "fulfilled">>
    /\ last.payload = <<serverUsers[2]>>
    /\ state.users = <<serverUsers[2]>>

\* the action types of the posts feature and of the users feature
postsEvents ==
    postsHandled \cup { "posts/addNewPost/pending", "posts/addNewPost/rejected" }

usersEvents ==
    { "users/fetchUsers/pending", "users/fetchUsers/fulfilled",
      "users/fetchUsers/rejected" }

\* C19: the root reducer hands each section to its own slice reducer only: a
\* posts event leaves the users section unchanged, a fetchUsers event leaves
\* the posts section unchanged, and an action that changes no section
\* returns the previous root object itself.
C19_SectionsIndependent ==
    [][ app = "social" =>
          /\ last'.type \in postsEvents =>
                /\ state'.users = state.users
                /\ ~fresh'.users
          /\ last'.type \in usersEvents =>
                /\ state'.posts = state.posts
                /\ ~fresh'.posts
          /\ (~fresh'.posts /\ ~fresh'.users) =>
                /\ ~fresh'.root
                /\ state' = state
          /\ thrown' = "none" =>
                /\ state'.posts = postsReducer(state.posts, last')
                /\ state'.users = usersReducer(state.users, last')
      ]_vars

\* C19 witness: an action that changes no section (the pending event of a
\* second fetchPosts invocation while the status is already 'loading') after
\* both sections were filled
C19_Witness ==
    /\ last.type = "posts/fetchPosts/pending"
    /\ state.posts.status = "loading"
    /\ Len(state.users) > 0
    /\ Len(state.posts.posts) > 0
    /\ fresh = noneFresh
    /\ thrown = "none"

C21_Deterministic ==
    app = "social" =>
        /\ state.posts = replay(Len(log)).posts
        /\ \A k \in 1..Len(log) :
              log[k].type = "posts/postAdded" =>
                 LET before == replay(k - 1).posts
                     after == postsReducer(before, log[k])
                 IN /\ {"id", "date"} \subseteq DOMAIN log[k].payload
                    /\ after.posts[Len(after.posts)] = log[k].payload
                    /\ after = replay(k).posts

\* C21 witness: two posts were added at different times, and the clock has
\* moved on since the first
C21_Witness ==
    /\ app = "social"
    /\ Len(log) >= 3
    /\ log[1].type = "posts/postAdded"
    /\ log[2].type = "posts/postAdded"
    /\ log[1].payload.date < log[2].payload.date
    /\ log[1].payload.date < now
    /\ log[1].payload.id # log[2].payload.id
    /\ Len(state.posts.posts) >= 2

\* the ids of the posts of a collection, in collection order
idList(posts) == [i \in 1..Len(posts) |-> posts[i].id]

\* whether sequence p is a prefix of sequence q
isPrefix(p, q) == Len(p) <= Len(q) /\ SubSeq(q, 1, Len(p)) = p

\* C22: the posts collection only grows at its end: no event removes a post
\* or changes the relative order of the posts already present, so the list
\* of ids of an earlier state is a prefix of the list of ids of every later
\* state.
C22_GrowsAtEnd ==
    [][ isPrefix(idList(state.posts.posts), idList(state'.posts.posts)) ]_vars

\* C22 witness: a fetched list has just been put behind posts added locally
\* and by the backend
C22_Witness ==
    /\ last.type = "posts/fetchPosts/fulfilled"
    /\ Len(state.posts.posts) >= 3
    /\ state.posts.posts[1].id \in { NanoIds[k] : k \in 1..Len(NanoIds) }
    /\ state.posts.posts[Len(state.posts.posts)].id \in { ServerIds[k] : k \in 1..Len(ServerIds) }
    /\ Len(last.payload) < Len(state.posts.posts)
    /\ Len(last.payload) > 0

\* C23: the single-post view for route /posts/<postId> shows the post of the
\* store whose id equals the route's postId whenever there is one, and
\* 'Post not found!' only when no post has that id.
C23_SinglePostShown ==
    app = "social" =>
        \A postId \in idsOf(state.posts.posts) \cup {MissingId} :
            SinglePostPage(state, postId) =
                IF postId \in idsOf(state.posts.posts)
                THEN [shows |-> "post",
                      post |-> state.posts.posts[findIndex(state.posts.posts, postId)]]
                ELSE [shows |-> "Post not found!"]

\* C24: the posts list view shows every post of the store exactly once,
\* newest first by date, and sorts a copy, so the collection held in the
\* store keeps its order.
C24_ListNewestFirst ==
    (app = "social" /\ Len(state.posts.posts) > 0) =>
        LET view == PostsList(state)
            posts == state.posts.posts
        IN /\ "shows" \in DOMAIN view
           /\ Len(view.shows) = Len(posts)
           /\ \E perm \in [1..Len(posts) -> 1..Len(posts)] :
                 /\ \A i, j \in 1..Len(posts) : i # j => perm[i] # perm[j]
                 /\ \A i \in 1..Len(posts) : view.shows[i] = posts[perm[i]]
           /\ \A i, j \in 1..Len(posts) :
                 i < j => view.shows[i].date >= view.shows[j].date

\* the states in which the collection has been loaded or has failed to load
settledStatus == state.posts.status \in {"succeeded", "failed"}

\* C27: if every started network call eventually resolves or rejects, every
\* fetchPosts invocation eventually dispatches its terminal event (there is
\* no cancellation), so a 'loading' status eventually becomes 'succeeded' or
\* 'failed'; and the status is never 'loading' in a state where no
\* fetchPosts request is in flight.
C27_FetchSettles ==
    /\ [](state.posts.status = "loading" => fetchPostsInFlight(reqs) # {})
    /\ \A r \in 1..MaxSettling :
          (r \in fetchPostsInFlight(reqs))
             ~> (r \in fetchReqs(reqs) /\ Len(reqs[r].events) = 2)
    /\ (state.posts.status = "loading") ~> settledStatus

\* C27 witness: two overlapping fetchPosts invocations have both dispatched
\* their terminal event
C27_Witness ==
    /\ settling
    /\ Cardinality(fetchReqs(reqs)) = 2
    /\ fetchPostsInFlight(reqs) = {}
    /\ Len(resolved) = 2
    /\ steps = 4
    /\ settledStatus

\* the position in the log of the pending event of the request whose
\* fulfilled event is log[k]
pendingOf(k) ==
    CHOOSE i \in 1..k : /\ log[i].type = "posts/fetchPosts/pending"
                        /\ log[i].req = log[k].req

\* C28: events dispatched between a fetchPosts pending event and its
\* fulfilled event are not lost: a post appended by postAdded or by
\* addNewPost.fulfilled, or edited by postUpdated, while the fetch is in
\* flight is in the collection with its edited values after the fulfilled
\* event, before the fetched items: the fulfilled event extends the
\* collection current at resolution time, not the one at request time.
C28_InFlightEventsKept ==
    app = "social" =>
        \A k \in 1..Len(log) :
            log[k].type = "posts/fetchPosts/fulfilled" =>
                LET atRequest == replay(pendingOf(k)).posts.posts
                    atResolution == replay(k - 1).posts.posts
                    after == replay(k).posts.posts
                    final == state.posts.posts
                IN /\ isPrefix(idList(atRequest), idList(atResolution))
                   /\ after = atResolution \o log[k].payload
                   /\ isPrefix(idList(after), idList(final))
                   /\ \A i \in (pendingOf(k) + 1)..(k - 1) :
                         /\ log[i].type \in { "posts/postAdded", "posts/addNewPost/fulfilled" } =>
                               \E j \in 1..Len(atResolution) :
                                   /\ after[j].id = log[i].payload.id
                                   /\ after[j].user = log[i].payload.user
                                   /\ after[j].date = log[i].payload.date
                         /\ (log[i].type = "posts/postUpdated"
                               /\ findIndex(atResolution, log[i].payload.id) # 0) =>
                               LET j == findIndex(atResolution, log[i].payload.id)
                               IN /\ after[j].title = log[i].payload.title
                                  /\ after[j].content = log[i].payload.content

\* C28 witness: a post was added and then edited while the fetch was in
\* flight, and the fulfilled event has put the fetched post behind it
C28_Witness ==
    /\ app = "social"
    /\ Len(log) = 4
    /\ log[1].type = "posts/fetchPosts/pending"
    /\ log[2].type = "posts/postAdded"
    /\ log[3].type = "posts/postUpdated"
    /\ log[3].payload.id = log[2].payload.id
    /\ log[4].type = "posts/fetchPosts/fulfilled"
    /\ Len(state.posts.posts) = 2
    /\ state.posts.posts[1].id = log[2].payload.id
    /\ state.posts.posts[1].title = log[3].payload.title
    /\ state.posts.posts[2] = seedPost

\* whether a fetchPosts request has been rejected
fetchPostsHasFailed(rq) ==
    \E r \in fetchReqs(rq) : rq[r].events = <<"pending", "rejected">>

\* C29: posts.error is written only by a fetchPosts rejected event: it is
\* null until the first rejection, and the fetchPosts pending and fulfilled
\* events (like every other event) leave it unchanged, so the message of a
\* rejected request is still stored while a later request is loading and
\* after it has succeeded.
C29_ErrorOnlyByRejected ==
    [][ app = "social" =>
          /\ last'.type # "posts/fetchPosts/rejected" =>
                state'.posts.error = state.posts.error
          /\ ~fetchPostsHasFailed(reqs') => state'.posts.error = Null
          /\ (fetchPostsHasFailed(reqs)
                /\ last'.type \in { "posts/fetchPosts/pending",
                                    "posts/fetchPosts/fulfilled" }) =>
                /\ state'.posts.error \in Messages
                /\ state'.posts.status \in {"loading", "succeeded"}
      ]_vars

\* C29 witness: a request was rejected, a new request was made and has been
\* fulfilled; the message of the first is still stored
C29_Witness ==
    /\ app = "social"
    /\ Len(log) = 4
    /\ log[1].type = "posts/fetchPosts/pending"
    /\ log[2].type = "posts/fetchPosts/rejected"
    /\ log[3].type = "posts/fetchPosts/pending"
    /\ log[4].type = "posts/fetchPosts/fulfilled"
    /\ state.posts.status = "succeeded"
    /\ state.posts.error = log[2].error
    /\ state.posts.error \in Messages

\* C30: an addNewPost fulfilled event appends the post the server returned
\* as the last element of the collection and leaves posts.status,
\* posts.error and all existing posts unchanged; an addNewPost pending event
\* leaves the whole posts section unchanged.
C30_AddNewPost ==
    [][ app = "social" =>
          /\ last'.type = "posts/addNewPost/fulfilled" =>
                LET old == state.posts.posts
                    new == state'.posts.posts
                IN /\ Len(new) = Len(old) + 1
                   /\ new[Len(new)] = last'.payload
                   /\ last'.payload = serverPosts'[Len(serverPosts')]
                   /\ \A i \in 1..Len(old) : new[i] = old[i]
                   /\ state'.posts.status = state.posts.status
                   /\ state'.posts.error = state.posts.error
          /\ last'.type = "posts/addNewPost/pending" =>
                state'.posts = state.posts
      ]_vars

\* C30 witness: the server's post has just been put behind an existing post
\* while the section records a failed fetch
C30_Witness ==
    /\ last.type = "posts/addNewPost/fulfilled"
    /\ Len(state.posts.posts) >= 2
    /\ state.posts.posts[Len(state.posts.posts)] = last.payload
    /\ last.payload.id \in { ServerIds[k] : k \in 1..Len(ServerIds) }
    /\ state.posts.status = "failed"
    /\ state.posts.error \in Messages

====
